---- MODULE Spec2Model ----
(***************************************************************************)
(* Temporal aliases (alias/models.py): the table of Alias rows, the        *)
(* validating Alias.save, point-in-time resolution Alias.__str__, the      *)
(* range query get_aliases and the split operation alias_replace.          *)
(*                                                                         *)
(* Instants are integers 0..MaxTime, all in UTC, so that the               *)
(* replace(tzinfo=pytz.utc) of get_aliases leaves them as they are.  A     *)
(* row's primary key is its position in the table, rows are never deleted, *)
(* and an unordered queryset is scanned in primary-key order.  The several *)
(* timezone.now() reads of one __str__ call return one instant.  save      *)
(* does not compare start with end, so rows with end <= start are rows of  *)
(* the table like any other.                                               *)
(***************************************************************************)
EXTENDS Integers, Sequences, FiniteSets, TLC

VARIABLES store, last, pending

vars == <<store, last, pending>>

\* ---------------------------------------------------------------- bounds
MaxTime == 3
MaxRecords == 2
MaxKeyRecords == 3

\* ----------------------------------------------------------- data model
\* end = models.DateTimeField(null=True, default=None)
None == 0 - 1

Times == 0..MaxTime

Ends == Times \cup {None}

Aliases == {"a", "b"}

Targets == {"T", "U"}

\* class Alias: alias, target, start, end
Alias == [alias : Aliases, target : Targets, start : Times, end : Ends]

\* the filter taking every row of the target, whatever its alias
FilterTarget(st, alias, target) ==
    {i \in DOMAIN st : st[i].target = target}

\* Alias.objects.filter(alias=..., target=...): primary keys of the rows of a key
FilterKey(st, alias, target) ==
    {i \in DOMAIN st : st[i].alias = alias /\ st[i].target = target}

\* super(Alias, self).save(): INSERT when the instance has no primary key
\* (pk = 0), UPDATE of the row otherwise
SuperSave(st, pk, self) ==
    IF pk = 0 THEN Append(st, self) ELSE [st EXCEPT ![pk] = self]

\* start__gte=self.start, start__lt=self.end
AliasesOverlappingStart(st, self) ==
    Cardinality({i \in FilterKey(st, self.alias, self.target) :
                    st[i].start >= self.start /\ st[i].start < self.end})

\* end__gte=self.start, end__lt=self.end (a NULL end matches no comparison)
AliasesOverlappingEnd(st, self) ==
    Cardinality({i \in FilterKey(st, self.alias, self.target) :
                    /\ st[i].end # None
                    /\ st[i].end >= self.start
                    /\ st[i].end < self.end})

\* the open-ended check also counting rows that end at or after the
\* candidate's start, as the bounded check does
AliasesOverlappingOpenByEnd(st, self) ==
    Cardinality({i \in FilterKey(st, self.alias, self.target) :
                    \/ st[i].start >= self.start
                    \/ st[i].end # None /\ st[i].end >= self.start})

\* start__gte=self.start, for a candidate whose end is None
AliasesOverlappingOpen(st, self) ==
    Cardinality({i \in FilterKey(st, self.alias, self.target) :
                    st[i].start >= self.start})

\* save writing a new instance over the committed row that has its alias,
\* target and start, instead of inserting it
SaveOverMatch(st, pk, self) ==
    IF \E i \in FilterKey(st, self.alias, self.target) : st[i].start = self.start
    THEN LET m == CHOOSE i \in FilterKey(st, self.alias, self.target) :
                      st[i].start = self.start
         IN  [store |-> [st EXCEPT ![m] = self], res |-> "ok"]
    ELSE IF self.end # None
         THEN IF AliasesOverlappingStart(st, self) > 0
                 \/ AliasesOverlappingEnd(st, self) > 0
              THEN [store |-> st, res |-> "ValueError"]
              ELSE [store |-> SuperSave(st, pk, self), res |-> "ok"]
         ELSE IF AliasesOverlappingOpen(st, self) > 0
              THEN [store |-> st, res |-> "ValueError"]
              ELSE [store |-> SuperSave(st, pk, self), res |-> "ok"]

\* Alias.save: the table afterwards and "ok" or the exception raised
Save(st, pk, self) ==
    IF \E i \in FilterKey(st, self.alias, self.target) : st[i].start = self.start
    THEN [store |-> SuperSave(st, pk, self), res |-> "ok"]
    ELSE IF self.end # None
         THEN IF AliasesOverlappingStart(st, self) > 0
                 \/ AliasesOverlappingEnd(st, self) > 0
              THEN [store |-> st, res |-> "ValueError"]
              ELSE [store |-> SuperSave(st, pk, self), res |-> "ok"]
         ELSE IF AliasesOverlappingOpen(st, self) > 0
              THEN [store |-> st, res |-> "ValueError"]
              ELSE [store |-> SuperSave(st, pk, self), res |-> "ok"]

\* Alias.objects.create(...): save of a new instance
Create(st, self) == Save(st, 0, self)

\* __str__ taking the end as inclusive
StrInclusiveEnd(self, now) ==
    IF (self.start <= now /\ self.end = None)
       \/ (self.start <= now /\ self.end # None /\ now <= self.end)
    THEN "target"
    ELSE IF now < self.start THEN "Alias is not active yet"
         ELSE IF self.end # None /\ now > self.end THEN "Alias is no longer active"
              ELSE "TypeError"

\* Alias.__str__ with timezone.now() = now
Str(self, now) ==
    IF (self.start <= now /\ self.end = None)
       \/ (self.start <= now /\ self.end # None /\ now < self.end)
    THEN "target"
    ELSE IF now < self.start THEN "Alias is not active yet"
         ELSE IF self.end # None /\ now >= self.end THEN "Alias is no longer active"
              ELSE "TypeError"

\* Alias.__repr__ with timezone.now() = now
Repr(self, now) ==
    IF self.end = None \/ (self.start <= now /\ now < self.end)
    THEN "target"
    ELSE IF now < self.start THEN "Alias is not active yet"
         ELSE IF now >= self.end THEN "Alias is no longer active"
              ELSE "TypeError"

\* the closed-range loop keeping the rows that contain [from, to) instead of
\* those lying within it
RECURSIVE ScanClosedContaining(_, _, _, _, _, _)
ScanClosedContaining(st, k, target, from, to, aliases) ==
    IF k > Len(st) THEN [res |-> "ok", aliases |-> aliases]
    ELSE IF st[k].target = target /\ st[k].start <= from
            /\ (st[k].end = None \/ to <= st[k].end)
         THEN ScanClosedContaining(st, k + 1, target, from, to,
                                   Append(aliases, st[k].alias))
         ELSE ScanClosedContaining(st, k + 1, target, from, to, aliases)

\* the loop of get_aliases over query_set from row k on, end is not None
RECURSIVE ScanClosed(_, _, _, _, _, _)
ScanClosed(st, k, target, from, to, aliases) ==
    IF k > Len(st) THEN [res |-> "ok", aliases |-> aliases]
    ELSE IF st[k].target # target
         THEN ScanClosed(st, k + 1, target, from, to, aliases)
         ELSE IF st[k].start >= from
              THEN IF st[k].end = None
                   THEN [res |-> "TypeError", aliases |-> <<>>]
                   ELSE IF st[k].end <= to
                        THEN ScanClosed(st, k + 1, target, from, to,
                                        Append(aliases, st[k].alias))
                        ELSE ScanClosed(st, k + 1, target, from, to, aliases)
              ELSE ScanClosed(st, k + 1, target, from, to, aliases)

\* the open-range loop over Alias.objects.all() instead of the target's rows
RECURSIVE ScanOpenAllTargets(_, _, _, _, _)
ScanOpenAllTargets(st, k, target, from, aliases) ==
    IF k > Len(st) THEN [res |-> "ok", aliases |-> aliases]
    ELSE IF st[k].start >= from
         THEN ScanOpenAllTargets(st, k + 1, target, from, Append(aliases, st[k].alias))
         ELSE ScanOpenAllTargets(st, k + 1, target, from, aliases)

\* the loop of get_aliases over query_set from row k on, end is None
RECURSIVE ScanOpen(_, _, _, _, _)
ScanOpen(st, k, target, from, aliases) ==
    IF k > Len(st) THEN [res |-> "ok", aliases |-> aliases]
    ELSE IF st[k].target = target /\ st[k].start >= from
         THEN ScanOpen(st, k + 1, target, from, Append(aliases, st[k].alias))
         ELSE ScanOpen(st, k + 1, target, from, aliases)

\* get_aliases(target, start, end) with datetime arguments
GetAliases(st, target, from, to) ==
    IF to # None
    THEN ScanClosed(st, 1, target, from, to, <<>>)
    ELSE ScanOpen(st, 1, target, from, <<>>)

\* alias_replace opening the successor without closing the existing row
AliasReplaceNoClose(st, pk, replace_at, new_alias_value) ==
    LET created == Create(st, [alias  |-> new_alias_value,
                               target |-> st[pk].target,
                               start  |-> replace_at,
                               end    |-> None])
    IN  IF created.res # "ok" THEN created
        ELSE IF Cardinality({i \in DOMAIN created.store :
                                created.store[i].alias = new_alias_value}) > 1
             THEN [store |-> created.store, res |-> "MultipleObjectsReturned"]
             ELSE [store |-> created.store, res |-> "ok"]

\* alias_replace(existing_alias, replace_at, new_alias_value), existing_alias
\* being the committed row pk
AliasReplace(st, pk, replace_at, new_alias_value) ==
    LET closed  == Save(st, pk, [st[pk] EXCEPT !.end = replace_at])
        created == Create(closed.store, [alias  |-> new_alias_value,
                                         target |-> st[pk].target,
                                         start  |-> replace_at,
                                         end    |-> None])
    IN  IF closed.res # "ok" THEN closed
        ELSE IF created.res # "ok" THEN created
        ELSE IF Cardinality({i \in DOMAIN created.store :
                                created.store[i].alias = new_alias_value}) > 1
             THEN [store |-> created.store, res |-> "MultipleObjectsReturned"]
             ELSE [store |-> created.store, res |-> "ok"]

\* ------------------------------------------------------------- actions
\* A caller issues one call at a time: last holds the call that has just
\* returned (or raised) until the caller takes the result.
Idle == [op |-> "idle", arg |-> <<>>, res |-> "ok"]

\* the processes that may run save at the same time
Procs == {"p1", "p2"}

\* a process that is not inside save
NoSave == [pc |-> "idle", self |-> <<>>, res |-> "none"]

Init ==
    /\ store = <<>>
    /\ last = Idle
    /\ pending = [p \in Procs |-> NoSave]

SaveCall(self, n) ==
    /\ pending' = pending
    /\ last.op = "idle"
    /\ Len(store) < n
    /\ LET r == Create(store, self)
       IN  /\ store' = r.store
           /\ last' = [op |-> "save", arg |-> self, res |-> r.res]

ReplaceCall(pk, replace_at, new_alias_value, n) ==
    /\ pending' = pending
    /\ last.op = "idle"
    /\ Len(store) < n
    /\ LET r == AliasReplace(store, pk, replace_at, new_alias_value)
       IN  /\ store' = r.store
           /\ last' = [op  |-> "alias_replace",
                       arg |-> [pk |-> pk, existing_alias |-> store[pk],
                                replace_at |-> replace_at,
                                new_alias_value |-> new_alias_value],
                       res |-> r.res]

StrCall(pk, now) ==
    /\ pending' = pending
    /\ last.op = "idle"
    /\ store' = store
    /\ last' = [op |-> "str", arg |-> [pk |-> pk, now |-> now],
                res |-> Str(store[pk], now)]

ReprCall(pk, now) ==
    /\ pending' = pending
    /\ last.op = "idle"
    /\ store' = store
    /\ last' = [op |-> "repr", arg |-> [pk |-> pk, now |-> now],
                res |-> Repr(store[pk], now)]

GetAliasesCall(target, from, to) ==
    /\ pending' = pending
    /\ last.op = "idle"
    /\ store' = store
    /\ last' = [op  |-> "get_aliases",
                arg |-> [target |-> target, from |-> from, to |-> to],
                res |-> GetAliases(store, target, from, to)]

Return ==
    /\ pending' = pending
    /\ last.op # "idle"
    /\ last' = Idle
    /\ store' = store

\* the calls a caller makes with aliases A and targets T on a table of at
\* most n rows
NextOn(A, T, n) ==
    \/ \E self \in Alias : self.alias \in A /\ self.target \in T /\ SaveCall(self, n)
    \/ \E pk \in DOMAIN store, at \in Times, new \in A : ReplaceCall(pk, at, new, n)
    \/ \E pk \in DOMAIN store, now \in Times : StrCall(pk, now)
    \/ \E pk \in DOMAIN store, now \in Times : ReprCall(pk, now)
    \/ \E target \in T, from \in Times, to \in Ends : GetAliasesCall(target, from, to)
    \/ Return

Next == NextOn(Aliases, Targets, MaxRecords)

Spec == Init /\ [][Next]_vars

\* every call on the one key ("a", "T")
NextKey == NextOn({"a"}, {"T"}, MaxRecords)

SpecKey == Init /\ [][NextKey]_vars

\* every call on the one key ("a", "T"), on a table of up to MaxKeyRecords rows
NextKeyDeep == NextOn({"a"}, {"T"}, MaxKeyRecords)

SpecKeyDeep == Init /\ [][NextKeyDeep]_vars

\* Two processes inside Alias.save at once.  The queries of one save (the
\* filter on alias, target and start and the two counts) are taken as one
\* read of the table; the INSERT is a later statement, and nothing in save
\* holds a lock or a transaction between the two.
SaveScan(p, self) ==
    /\ pending[p].pc # "scanned"
    /\ Len(store) + Cardinality({q \in Procs : pending[q].pc = "scanned"}) < MaxRecords
    /\ pending' = [pending EXCEPT ![p] = [pc   |-> "scanned",
                                          self |-> self,
                                          res  |-> Create(store, self).res]]
    /\ UNCHANGED <<store, last>>

\* the rest of save: raise, or super().save() on what the scan found
SaveCommit(p) ==
    /\ pending[p].pc = "scanned"
    /\ store' = IF pending[p].res = "ok"
                THEN SuperSave(store, 0, pending[p].self)
                ELSE store
    /\ pending' = [pending EXCEPT ![p].pc = "done"]
    /\ UNCHANGED last

NextConc ==
    \/ \E p \in Procs, self \in Alias :
          self.alias = "a" /\ self.target = "T" /\ SaveScan(p, self)
    \/ \E p \in Procs : SaveCommit(p)

SpecConc == Init /\ [][NextConc]_vars

\* ------------------------------------------------- interval vocabulary
\* t < r.end, a None end being +infinity
EndsAfter(r, t) == r.end = None \/ t < r.end

\* [s1, e1) and [s2, e2) overlap iff s1 < e2 and s2 < e1
Overlaps(x, y) == EndsAfter(y, x.start) /\ EndsAfter(x, y.start)

\* start <= t < end
Contains(r, t) == r.start <= t /\ EndsAfter(r, t)

SameKey(x, y) == x.alias = y.alias /\ x.target = y.target

\* a bounded interval has end > start
WellFormed(r) == r.end = None \/ r.start < r.end

\* the aliases of the rows of st that satisfy P, in table order
AliasesWhere(st, P(_)) ==
    LET rows == SelectSeq(st, P) IN [k \in 1..Len(rows) |-> rows[k].alias]

\* the save call that has just returned committed its candidate
Committed == last.op = "save" /\ last.res = "ok"

\* ------------------------------------------------------------- claims
\* C1: in every reachable state no two distinct committed rows of one
\* (alias, target) have overlapping intervals.
NonOverlapInvariant ==
    \A i, j \in DOMAIN store :
        (i # j /\ SameKey(store[i], store[j])) => ~Overlaps(store[i], store[j])

\* C2: when the only committed row of a key is an interval A, saving an
\* interval B of that key with another start that overlaps A is rejected;
\* A and B range over all such pairs, so both insertion orders are covered.
SymmetricRejection ==
    [][(/\ last'.op = "save"
        /\ WellFormed(last'.arg)
        /\ \E i \in DOMAIN store :
              /\ FilterKey(store, last'.arg.alias, last'.arg.target) = {i}
              /\ WellFormed(store[i])
              /\ store[i].start # last'.arg.start
              /\ Overlaps(store[i], last'.arg))
       => last'.res = "ValueError"]_vars

\* C3: with a row [s, t) committed, saving the open-ended [t, None) of the
\* same key commits it, provided no other row of the key starts at or
\* after t.
AdjacentOpenAccepted ==
    [][(/\ last'.op = "save"
        /\ last'.arg.end = None
        /\ \E i \in DOMAIN store :
              /\ SameKey(store[i], last'.arg)
              /\ store[i].start < store[i].end
              /\ store[i].end = last'.arg.start
              /\ \A j \in FilterKey(store, last'.arg.alias, last'.arg.target) \ {i} :
                    store[j].start < last'.arg.start)
       => (last'.res = "ok" /\ store' = Append(store, last'.arg))]_vars

\* C3 witness: an open-ended row was just committed right at the end of a
\* bounded row of its key.
AdjacentOpenCommitted ==
    /\ Committed
    /\ Len(store) >= 2
    /\ store[Len(store)] = last.arg
    /\ last.arg.end = None
    /\ \E i \in 1..(Len(store) - 1) :
          /\ SameKey(store[i], last.arg)
          /\ store[i].start < store[i].end
          /\ store[i].end = last.arg.start

\* an existing bounded row e and a bounded candidate c that starts before e
\* and ends inside it, or starts inside e and ends after it
PartialOverlap(c, e) ==
    /\ c.end # None /\ e.end # None
    /\ c.start < c.end /\ e.start < e.end
    /\ \/ c.start < e.start /\ e.start < c.end /\ c.end < e.end
       \/ e.start < c.start /\ c.start < e.end /\ e.end < c.end

\* C4: saving a bounded candidate that partially overlaps a committed
\* bounded row of its key raises the overlap error and leaves the table as
\* it was.
PartialOverlapRejected ==
    [][(/\ last'.op = "save"
        /\ \E i \in DOMAIN store :
              SameKey(store[i], last'.arg) /\ PartialOverlap(last'.arg, store[i]))
       => (last'.res = "ValueError" /\ store' = store)]_vars

\* C5: a fresh candidate (no row has its alias, target and start) that
\* overlaps no committed row of its key is committed.
NonOverlappingAccepted ==
    [][(/\ last'.op = "save"
        /\ WellFormed(last'.arg)
        /\ \A i \in FilterKey(store, last'.arg.alias, last'.arg.target) :
              /\ WellFormed(store[i])
              /\ store[i].start # last'.arg.start
              /\ ~Overlaps(store[i], last'.arg))
       => (last'.res = "ok" /\ store' = Append(store, last'.arg))]_vars

\* C6: __str__ of a row at instant t has exactly one outcome: it returns iff
\* start <= t and (end is None or t < end), raises "Alias is not active yet"
\* iff t < start, and raises "Alias is no longer active" iff t >= start, end
\* is not None and t >= end.
StrOutcome ==
    last.op = "str" =>
        LET r == store[last.arg.pk]
            t == last.arg.now
        IN  /\ last.res \in {"target", "Alias is not active yet",
                              "Alias is no longer active"}
            /\ last.res = "target"
                  <=> (r.start <= t /\ (r.end = None \/ t < r.end))
            /\ last.res = "Alias is not active yet" <=> t < r.start
            /\ last.res = "Alias is no longer active"
                  <=> (t >= r.start /\ r.end # None /\ t >= r.end)

\* C6 witness: a row resolved exactly at its end is no longer active.
StrAtEnd ==
    /\ last.op = "str"
    /\ store[last.arg.pk].start < last.arg.now
    /\ store[last.arg.pk].end = last.arg.now
    /\ last.res = "Alias is no longer active"

\* C7 as stated, in the case it adds to C1: for every target and instant,
\* no two committed rows of the target under different aliases both contain
\* the instant.
AtMostOnePerTarget ==
    \A i, j \in DOMAIN store :
        (store[i].target = store[j].target /\ store[i].alias # store[j].alias)
            => \A t \in Times : ~(Contains(store[i], t) /\ Contains(store[j], t))

\* C7 as amended: rows of one target under different aliases are never
\* checked against each other; a save whose (alias, target) has no committed
\* row commits, whatever the other aliases of the target cover.
OtherAliasesNeverConflict ==
    [][(/\ last'.op = "save"
        /\ \A i \in DOMAIN store : ~SameKey(store[i], last'.arg))
       => (last'.res = "ok" /\ store' = Append(store, last'.arg))]_vars

\* C7 witness: a row was just committed while another alias of its target
\* covers a common instant.
TwoAliasesAtOnce ==
    /\ Committed
    /\ Len(store) >= 2
    /\ store[Len(store)] = last.arg
    /\ \E i \in 1..(Len(store) - 1) :
          /\ store[i].target = last.arg.target
          /\ store[i].alias # last.arg.alias
          /\ \E t \in Times : Contains(store[i], t) /\ Contains(last.arg, t)

\* the call that has just returned is get_aliases with a closed range
ClosedQuery == last.op = "get_aliases" /\ last.arg.to # None

\* the call that has just returned is get_aliases with end = None
OpenQuery == last.op = "get_aliases" /\ last.arg.to = None

\* C8 as stated, for the queries from < to that return: a closed-range query
\* returns exactly the aliases of the target's rows whose interval contains
\* [from, to): start <= from and (end is None or to <= end).
ClosedRangeContaining ==
    (ClosedQuery /\ last.arg.from < last.arg.to /\ last.res.res = "ok") =>
        last.res.aliases =
            AliasesWhere(store, LAMBDA r : /\ r.target = last.arg.target
                                           /\ r.start <= last.arg.from
                                           /\ (r.end = None \/ last.arg.to <= r.end))

\* C8 as amended: a closed-range query that returns, returns exactly the
\* aliases of the target's rows that lie within the range: start >= from,
\* end is not None and end <= to, in table order; it raises TypeError
\* exactly when a row of the target with start >= from has end None.
ClosedRangeWithin ==
    ClosedQuery =>
        /\ last.res.res = "TypeError"
              <=> \E i \in DOMAIN store : /\ store[i].target = last.arg.target
                                           /\ store[i].start >= last.arg.from
                                           /\ store[i].end = None
        /\ last.res.res \in {"ok", "TypeError"}
        /\ last.res.res = "ok" =>
              last.res.aliases =
                AliasesWhere(store, LAMBDA r : /\ r.target = last.arg.target
                                               /\ r.start >= last.arg.from
                                               /\ r.end # None
                                               /\ r.end <= last.arg.to)

\* C8 witness: a query from < to returned the one row lying within the range
\* and left out a row of the target that contains the whole range.
ClosedRangeScenario ==
    /\ ClosedQuery
    /\ last.arg.from < last.arg.to
    /\ last.res.res = "ok"
    /\ Len(last.res.aliases) = 1
    /\ \E i, j \in DOMAIN store :
          /\ store[i].target = last.arg.target
          /\ store[j].target = last.arg.target
          /\ store[i].alias = last.res.aliases[1]
          /\ store[i].alias # store[j].alias
          /\ last.arg.from <= store[i].start
          /\ store[i].start < store[i].end
          /\ store[i].end <= last.arg.to
          /\ store[j].start < last.arg.from
          /\ store[j].end # None
          /\ last.arg.to <= store[j].end

\* C9: an open-range query returns exactly the aliases of the target's rows
\* (any alias) with start >= from, one entry per row, in the order the rows
\* were committed, and no alias of a row of another target.
OpenRangeByStart ==
    OpenQuery =>
        /\ last.res.res = "ok"
        /\ last.res.aliases =
              AliasesWhere(store, LAMBDA r : /\ r.target = last.arg.target
                                             /\ r.start >= last.arg.from)

\* C9 witness: the query returned one row of its target and left out a row
\* of another target that starts late enough, under another alias.
OpenRangeOtherTarget ==
    /\ OpenQuery
    /\ last.res.res = "ok"
    /\ Len(last.res.aliases) = 1
    /\ \E i \in DOMAIN store :
          /\ store[i].target # last.arg.target
          /\ store[i].start >= last.arg.from
          /\ store[i].alias # last.res.aliases[1]

\* the call that has just returned is an alias_replace that succeeded on an
\* open-ended row, at an instant after the row's start
SplitSucceeded ==
    /\ last.op = "alias_replace"
    /\ last.res = "ok"
    /\ last.arg.existing_alias.end = None
    /\ last.arg.replace_at > last.arg.existing_alias.start

\* C10: after such a split the existing row ends at replace_at, the row
\* {new_alias, existing.target, replace_at, None} is committed, and every
\* instant from existing.start on lies in exactly one of the two: the
\* existing row before replace_at, the new row from replace_at on.
SplitPostcondition ==
    SplitSucceeded =>
        LET old == last.arg.existing_alias
            at  == last.arg.replace_at
            new == [alias |-> last.arg.new_alias_value, target |-> old.target,
                    start |-> at, end |-> None]
        IN  /\ store[last.arg.pk] = [old EXCEPT !.end = at]
            /\ \E j \in DOMAIN store \ {last.arg.pk} : store[j] = new
            /\ \A t \in Times :
                  t >= old.start =>
                    /\ Contains(store[last.arg.pk], t) <=> t < at
                    /\ Contains(new, t) <=> t >= at

\* C10 witness: a split of an open-ended row has just succeeded and both
\* rows are in the table.
SplitDone ==
    /\ SplitSucceeded
    /\ Len(store) >= 2
    /\ store[Len(store)].start = last.arg.replace_at
    /\ store[Len(store)].alias = last.arg.new_alias_value
    /\ store[last.arg.pk].end = last.arg.replace_at

\* C11: alias_replace is all-or-nothing: a call that raises (the insert of
\* the successor is rejected, or a later step fails) leaves the table exactly
\* as it was before the call; stated for the calls with replace_at after the
\* start of a well-formed existing row.
SplitAllOrNothing ==
    [][(/\ last'.op = "alias_replace"
        /\ WellFormed(last'.arg.existing_alias)
        /\ last'.arg.replace_at > last'.arg.existing_alias.start
        /\ last'.res # "ok")
       => store' = store]_vars

\* C12: alias_replace with replace_at <= existing.start fails and changes
\* nothing.
SplitBeforeStartRejected ==
    [][(/\ last'.op = "alias_replace"
        /\ last'.arg.replace_at <= last'.arg.existing_alias.start)
       => (last'.res # "ok" /\ store' = store)]_vars

\* C13: in every reachable state at most one committed row exists for any
\* (alias, target, start).
UniqueKeyStart ==
    \A i, j \in DOMAIN store :
        (SameKey(store[i], store[j]) /\ store[i].start = store[j].start) => i = j

\* C14: in every reachable state every committed row with an end has
\* end > start.
CommittedWellFormed == \A i \in DOMAIN store : WellFormed(store[i])

\* C15: alias_replace only shrinks the existing row: afterwards its end is
\* not later than its end before the call, a None end being +infinity;
\* stated for the calls on a well-formed existing row.
SplitOnlyShrinks ==
    (last.op = "alias_replace" /\ WellFormed(last.arg.existing_alias)) =>
        /\ store[last.arg.pk].end # None
        /\ \/ last.arg.existing_alias.end = None
           \/ store[last.arg.pk].end <= last.arg.existing_alias.end

\* C16: no call deletes a committed row or changes its alias, target or
\* start; a row's end changes only in an alias_replace on that row; a
\* rejected save and every query leave the whole table unchanged.
FrameOfRows ==
    [][/\ Len(store') >= Len(store)
       /\ \A i \in DOMAIN store :
             /\ store'[i].alias = store[i].alias
             /\ store'[i].target = store[i].target
             /\ store'[i].start = store[i].start
             /\ store'[i].end # store[i].end
                   => (last'.op = "alias_replace" /\ last'.arg.pk = i)
       /\ (\/ last'.op \in {"str", "repr", "get_aliases"}
           \/ last'.op = "save" /\ last'.res # "ok")
             => store' = store]_vars

\* C16 witness: an alias_replace has just changed the end of its row, and
\* nothing else of it, in a table that holds a second row.
FrameAfterSplit ==
    /\ last.op = "alias_replace"
    /\ Len(store) >= 2
    /\ store[last.arg.pk].end # last.arg.existing_alias.end
    /\ store[last.arg.pk] =
          [last.arg.existing_alias EXCEPT !.end = last.arg.replace_at]

\* C18: __repr__ classifies every row at every instant as __str__ does.
ReprMatchesStr ==
    last.op = "repr" => last.res = Str(store[last.arg.pk], last.arg.now)

\* C19: a closed-range query with from < to returns a list and never raises.
ClosedRangeNeverRaises ==
    (ClosedQuery /\ last.arg.from < last.arg.to) => last.res.res = "ok"

\* C17: of two saves of partially overlapping intervals of one key that run
\* at the same time, at most one commits, under every interleaving.
ConcurrentSavesExclusive ==
    \A p, q \in Procs :
        (/\ p # q
         /\ pending[p].pc = "done" /\ pending[q].pc = "done"
         /\ PartialOverlap(pending[p].self, pending[q].self))
        => ~(pending[p].res = "ok" /\ pending[q].res = "ok")

====
